---- MODULE Spec2Model ----
(***************************************************************************)
(* Model of the ServiceNow MCP SSE server glue:                            *)
(*   - src/src/servicenow_mcp/server_sse.py  (auth resolution, main,       *)
(*     the SSE send shim, the session-header middleware)                   *)
(*   - src/scripts/get_p01_incidents.py      (the incident query script)   *)
(*   - src/tests/test_session_headers.py     (the tool call site)          *)
(*                                                                         *)
(* Python values are represented as follows: a str is a TLA+ string, None  *)
(* where a str is expected is the string None, None where an object is     *)
(* expected is the record NoneObj, bytes are <<"bytes", s>>, a list is a   *)
(* sequence, a dict is a record or a function on a set of keys.            *)
(***************************************************************************)
EXTENDS Integers, Sequences, FiniteSets, TLC

VARIABLES
    \* --- create_servicenow_mcp / main (server_sse.py:116-200)
    call,           \* the last entry point invoked and its inputs
    auth_config,    \* the AuthConfig built by the call, or NoneObj
    config,         \* the ServerConfig built by the call, or NoneObj
    server,         \* the ServiceNowSSEMCP built by the call, or NoneObj
    error,          \* the exception the call raised, or NoneObj
    started,        \* the (host, port) server.start was called with, or NoneObj
    \* --- the Starlette app of create_starlette_app (server_sse.py:26-81)
    session_id,     \* servicenow_mcp.session_id
    inner_headers,  \* the headers the SSE transport puts on its responses
    pc,             \* per request: where its handler stands
    captured,       \* per /sse request: the session_id local of handle_sse
    produced,       \* per request: the messages the inner handler produced
    forwarded,      \* per request: the messages request._send received
    channel,        \* per request: the message in flight to the middleware
    delivered,      \* per request: the frames sent to the client
    injections,     \* per request: how many times session headers were injected
    returned,       \* per /sse request: the Response handle_sse returned
    \* --- scripts/get_p01_incidents.py
    s_pc,           \* where the script stands
    requests_sent,  \* how many GET requests the script has issued
    response,       \* the upstream's response, or NoneObj
    output,         \* the lines the script printed from line 29 on
    \* --- tests/test_session_headers.py
    t_pc,           \* where test_session_headers stands
    t_outcome,      \* what _call_tool_impl did: the result returned or the error raised
    t_output,       \* the lines test_session_headers printed
    t_crashed       \* the exception that left test_session_headers, or NoneObj

authVars == <<call, auth_config, config, server, error, started>>

appVars == <<session_id, inner_headers, pc, captured, produced, forwarded, channel, delivered,
             injections, returned>>

scriptVars == <<s_pc, requests_sent, response, output>>

testVars == <<t_pc, t_outcome, t_output, t_crashed>>

vars == <<call, auth_config, config, server, error, started,
          session_id, inner_headers, pc, captured, produced, forwarded, channel,
          delivered, injections, returned, s_pc, requests_sent, response, output,
          t_pc, t_outcome, t_output, t_crashed>>

-----------------------------------------------------------------------------
(* Python's None *)
None == "None"
NoneObj == [py |-> "None"]

(* str.encode(): the bytes of an (ASCII) str *)
encode(s) == <<"bytes", s>>

-----------------------------------------------------------------------------
(* servicenow_mcp.utils.config: the classes imported at server_sse.py:23.  *)
(* Their module is not part of the sources at hand; the constructors are   *)
(* the ones the data model describes: every variant of AuthConfig is       *)
(* optional and unset unless passed.                                       *)

AuthType == [BASIC |-> "basic", OAUTH |-> "oauth", API_KEY |-> "api_key"]

BasicAuthConfig(username, password) ==
    [cls |-> "BasicAuthConfig", username |-> username, password |-> password]

OAuthConfig(client_id, client_secret, username, password, token_url) ==
    [cls |-> "OAuthConfig", client_id |-> client_id, client_secret |-> client_secret,
     username |-> username, password |-> password, token_url |-> token_url]

ApiKeyConfig(api_key, header_name) ==
    [cls |-> "ApiKeyConfig", api_key |-> api_key, header_name |-> header_name]

AuthConfig(type, basic, oauth, api_key) ==
    [cls |-> "AuthConfig", type |-> type, basic |-> basic, oauth |-> oauth,
     api_key |-> api_key]

ServerConfig(instance_url, auth) ==
    [cls |-> "ServerConfig", instance_url |-> instance_url, auth |-> auth,
     debug |-> FALSE]

(* ServiceNowSSEMCP.__init__ delegates to ServiceNowMCP.__init__, which    *)
(* generates the session identifier sid.                                   *)
ServiceNowSSEMCP(cfg, sid) ==
    [cls |-> "ServiceNowSSEMCP", config |-> cfg, session_id |-> sid]

-----------------------------------------------------------------------------
(* Inputs of the auth resolver *)

AuthKinds == {"basic", "oauth", "api_key"}
AuthTypeInputs == AuthKinds \cup {"BASIC", "ldap", ""}

ParamNames == {"username", "password", "client_id", "client_secret",
               "token_url", "api_key", "header_name"}

(* the str a caller (or the environment) supplies for each keyword *)
ParamValue ==
    [n \in ParamNames |->
        CASE n = "username" -> "u"
          [] n = "password" -> "p"
          [] n = "client_id" -> "cid"
          [] n = "client_secret" -> "csec"
          [] n = "token_url" -> "https://x.service-now.com/oauth_token.do"
          [] n = "api_key" -> "k"
          [] n = "header_name" -> "X-Custom-Key"]

SessionIds == {"sid-A", "sid-B"}
InstanceUrls == {"https://x.service-now.com"}

(* every **auth_params dict: a function on a subset of the keywords *)
AuthParams == {[n \in D |-> ParamValue[n]] : D \in SUBSET ParamNames}

(* key in dict, and dict.get(key, default) *)
Has(d, k) == k \in DOMAIN d
Get(d, k, default) == IF Has(d, k) THEN d[k] ELSE default

KeyError(k) == [cls |-> "KeyError", args |-> <<k>>]
ValueError(prefix, v) == [cls |-> "ValueError", args |-> <<prefix, v>>]

(* auth_params[k] for each k of ks in evaluation order: the first keyword  *)
(* that is absent (the KeyError raised), or None when all are present      *)
RECURSIVE FirstMissing(_, _)
FirstMissing(d, ks) ==
    IF ks = <<>> THEN None
    ELSE IF ~Has(d, Head(ks)) THEN Head(ks)
    ELSE FirstMissing(d, Tail(ks))

Resolved(ac) == [error |-> NoneObj, auth |-> ac]
Failed(e) == [error |-> e, auth |-> NoneObj]

(* lines 129-136 *)
basic_branch(p) ==
    LET ks == <<"username", "password">>
    IN  IF FirstMissing(p, ks) # None THEN Failed(KeyError(FirstMissing(p, ks)))
        ELSE Resolved(AuthConfig(AuthType.BASIC,
                                 BasicAuthConfig(p["username"], p["password"]),
                                 NoneObj, NoneObj))

(* a slip in the oauth branch: the tag and the variant of the basic branch *)
(* are kept next to the OAuth bundle                                       *)
oauth_branch_mistagged(p) ==
    LET ks == <<"client_id", "client_secret", "username", "password">>
    IN  IF FirstMissing(p, ks) # None THEN Failed(KeyError(FirstMissing(p, ks)))
        ELSE Resolved(AuthConfig(AuthType.BASIC,
                                 BasicAuthConfig(p["username"], p["password"]),
                                 OAuthConfig(p["client_id"], p["client_secret"],
                                             p["username"], p["password"],
                                             Get(p, "token_url", None)),
                                 NoneObj))

(* lines 137-147 *)
oauth_branch(p) ==
    LET ks == <<"client_id", "client_secret", "username", "password">>
    IN  IF FirstMissing(p, ks) # None THEN Failed(KeyError(FirstMissing(p, ks)))
        ELSE Resolved(AuthConfig(AuthType.OAUTH, NoneObj,
                                 OAuthConfig(p["client_id"], p["client_secret"],
                                             p["username"], p["password"],
                                             Get(p, "token_url", None)),
                                 NoneObj))

(* lines 148-155 *)
api_key_branch(p) ==
    LET ks == <<"api_key">>
    IN  IF FirstMissing(p, ks) # None THEN Failed(KeyError(FirstMissing(p, ks)))
        ELSE Resolved(AuthConfig(AuthType.API_KEY, NoneObj, NoneObj,
                                 ApiKeyConfig(p["api_key"],
                                              Get(p, "header_name",
                                                  "X-ServiceNow-API-Key"))))

(* a resolver that treats every unrecognized kind as basic *)
resolve_auth_default_basic(auth_type, p) ==
    IF auth_type = "oauth" THEN oauth_branch(p)
    ELSE IF auth_type = "api_key" THEN api_key_branch(p)
    ELSE basic_branch(p)

(* lines 129-157: the AuthConfig of the call, or the exception raised *)
resolve_auth(auth_type, p) ==
    IF auth_type = "basic" THEN basic_branch(p)
    ELSE IF auth_type = "oauth" THEN oauth_branch(p)
    ELSE IF auth_type = "api_key" THEN api_key_branch(p)
    ELSE Failed(ValueError("Unsupported auth_type: ", auth_type))

(* lines 116-160: the outcome of create_servicenow_mcp; sid is the session *)
(* identifier the server constructor generates                             *)
create_servicenow_mcp(instance_url, auth_type, auth_params, sid) ==
    LET r == resolve_auth(auth_type, auth_params)
    IN  IF r.error # NoneObj
        THEN [error |-> r.error, auth_config |-> NoneObj, config |-> NoneObj,
              server |-> NoneObj]
        ELSE [error |-> NoneObj, auth_config |-> r.auth,
              config |-> ServerConfig(instance_url, r.auth),
              server |-> ServiceNowSSEMCP(ServerConfig(instance_url, r.auth), sid)]

(* The process environment read by main: SERVICENOW_AUTH_TYPE (absent or   *)
(* any str) and any subset of the other variables.                         *)
EnvNames == {"SERVICENOW_INSTANCE_URL", "SERVICENOW_USERNAME", "SERVICENOW_PASSWORD",
             "SERVICENOW_CLIENT_ID", "SERVICENOW_CLIENT_SECRET",
             "SERVICENOW_TOKEN_URL", "SERVICENOW_API_KEY",
             "SERVICENOW_API_KEY_HEADER"}

EnvValue ==
    [n \in EnvNames |->
        CASE n = "SERVICENOW_INSTANCE_URL" -> "https://x.service-now.com"
          [] n = "SERVICENOW_USERNAME" -> ParamValue["username"]
          [] n = "SERVICENOW_PASSWORD" -> ParamValue["password"]
          [] n = "SERVICENOW_CLIENT_ID" -> ParamValue["client_id"]
          [] n = "SERVICENOW_CLIENT_SECRET" -> ParamValue["client_secret"]
          [] n = "SERVICENOW_TOKEN_URL" -> ParamValue["token_url"]
          [] n = "SERVICENOW_API_KEY" -> ParamValue["api_key"]
          [] n = "SERVICENOW_API_KEY_HEADER" -> ParamValue["header_name"]]

Environments ==
    {[n \in D |-> EnvValue[n]] : D \in SUBSET EnvNames} \cup
    {[n \in D \cup {"SERVICENOW_AUTH_TYPE"} |->
         IF n = "SERVICENOW_AUTH_TYPE" THEN t ELSE EnvValue[n]] :
       D \in SUBSET EnvNames, t \in AuthTypeInputs}

(* os.getenv(name, default) *)
getenv(env, name, default) == Get(env, name, default)

(* argparse: --host (default 0.0.0.0) and --port (default 8080) *)
Args == [host : {"0.0.0.0", "127.0.0.1"}, port : {8080, 9090}]

NotBuilt(e) ==
    [error |-> e, auth_config |-> NoneObj, config |-> NoneObj, server |-> NoneObj]

(* lines 171-198: the server main builds, or the exception it raises *)
main_build(env, sid) ==
    LET auth_type == getenv(env, "SERVICENOW_AUTH_TYPE", "basic")
        url == getenv(env, "SERVICENOW_INSTANCE_URL", None)
    IN  IF auth_type = "basic" THEN
            create_servicenow_mcp(url, "basic",
                [username |-> getenv(env, "SERVICENOW_USERNAME", None),
                 password |-> getenv(env, "SERVICENOW_PASSWORD", None)], sid)
        ELSE IF auth_type = "oauth" THEN
            create_servicenow_mcp(url, "oauth",
                [client_id |-> getenv(env, "SERVICENOW_CLIENT_ID", None),
                 client_secret |-> getenv(env, "SERVICENOW_CLIENT_SECRET", None),
                 username |-> getenv(env, "SERVICENOW_USERNAME", None),
                 password |-> getenv(env, "SERVICENOW_PASSWORD", None),
                 token_url |-> getenv(env, "SERVICENOW_TOKEN_URL", None)], sid)
        ELSE IF auth_type = "api_key" THEN
            create_servicenow_mcp(url, "api_key",
                [api_key |-> getenv(env, "SERVICENOW_API_KEY", None),
                 header_name |-> getenv(env, "SERVICENOW_API_KEY_HEADER",
                                        "X-ServiceNow-API-Key")], sid)
        ELSE NotBuilt(ValueError("Unsupported SERVICENOW_AUTH_TYPE: ", auth_type))

-----------------------------------------------------------------------------
(* Entry points *)

InitAuth ==
    /\ call = NoneObj
    /\ auth_config = NoneObj
    /\ config = NoneObj
    /\ server = NoneObj
    /\ error = NoneObj
    /\ started = NoneObj

(* a caller invokes create_servicenow_mcp(instance_url, auth_type, **auth_params), *)
(* once per process                                                               *)
CallCreate ==
    /\ call = NoneObj
    /\ \E url \in InstanceUrls, t \in AuthTypeInputs, p \in AuthParams, sid \in SessionIds :
        LET r == create_servicenow_mcp(url, t, p, sid)
        IN  /\ call' = [entry |-> "create_servicenow_mcp", auth_type |-> t,
                        auth_params |-> p]
            /\ auth_config' = r.auth_config
            /\ config' = r.config
            /\ server' = r.server
            /\ error' = r.error
            /\ started' = NoneObj
            /\ UNCHANGED <<appVars, scriptVars, testVars>>

(* lines 163-200: main() under an environment and command-line arguments;  *)
(* server.start is reached only when no exception was raised before it     *)
CallMain ==
    /\ call = NoneObj
    /\ \E env \in Environments, args \in Args, sid \in SessionIds :
        LET r == main_build(env, sid)
        IN  /\ call' = [entry |-> "main", env |-> env,
                        auth_type |-> getenv(env, "SERVICENOW_AUTH_TYPE", "basic")]
            /\ auth_config' = r.auth_config
            /\ config' = r.config
            /\ server' = r.server
            /\ error' = r.error
            /\ started' = IF r.error = NoneObj
                          THEN [host |-> args.host, port |-> args.port]
                          ELSE NoneObj
            /\ UNCHANGED <<appVars, scriptVars, testVars>>

NextAuth == CallCreate \/ CallMain

-----------------------------------------------------------------------------
(* The Starlette app: routes /sse and /messages/ behind SessionHeaderMiddleware *)

MaxRequests == 2
MaxHeaders == 2
MaxBody == 1

Requests == 1 .. MaxRequests

(* ASGI messages *)
Start(status, headers) ==
    [type |-> "http.response.start", status |-> status, headers |-> headers]
Body(body, more_body) ==
    [type |-> "http.response.body", body |-> body, more_body |-> more_body]

IsStart(m) == m.type = "http.response.start"

(* the headers an inner handler puts on its response, before any injection *)
HeaderPool ==
    << <<encode("set-cookie"), encode("a=1")>>,
       <<encode("set-cookie"), encode("b=2")>>,
       <<encode("content-type"), encode("text/event-stream")>>,
       <<encode("cache-control"), encode("no-store")>> >>

InnerHeaders ==
    {SubSeq(HeaderPool, 1, n) :
        n \in 0 .. (IF MaxHeaders < Len(HeaderPool) THEN MaxHeaders ELSE Len(HeaderPool))}

(* the i-th event chunk of an SSE stream; the closing frame has an empty body *)
Chunk(i) == <<"event", i>>

(* Python truthiness of session_id: None and the empty str are falsy *)
truthy(s) == s # None /\ s # ""

X_MCP_SESSION_ID == "x-mcp-session-id"
MCP_SESSION_ID == "mcp-session-id"

(* a handler that draws an identifier of its own for each connection *)
handle_sse_session_id_per_connection(sid, r) == IF sid = None THEN None ELSE "sid-conn"

(* line 33: the session_id local that send_with_headers closes over *)
handle_sse_session_id(sid, r) == sid

(* a shim that does not test session_id: str(None) goes out as the value *)
shim_injects_every_start(sid, message) == IsStart(message)

(* line 37: whether the shim injects into this message *)
shim_injects(sid, message) == truthy(sid) /\ IsStart(message)

(* a shim that assigns the two session headers in place of the frame's own *)
send_with_headers_overwrite(sid, message) ==
    IF shim_injects(sid, message)
    THEN << [k \in DOMAIN message \cup {"headers"} |->
               IF k = "headers"
               THEN << <<encode(X_MCP_SESSION_ID), encode(sid)>>,
                       <<encode(MCP_SESSION_ID), encode(sid)>> >>
               ELSE message[k]] >>
    ELSE << message >>

(* a shim whose call to request._send sits inside the if *)
send_with_headers_start_only(sid, message) ==
    IF shim_injects(sid, message)
    THEN << [k \in DOMAIN message \cup {"headers"} |->
               IF k = "headers"
               THEN Get(message, "headers", <<>>) \o
                        << <<encode(X_MCP_SESSION_ID), encode(sid)>>,
                           <<encode(MCP_SESSION_ID), encode(sid)>> >>
               ELSE message[k]] >>
    ELSE << >>

(* lines 35-44: the calls send_with_headers(message) makes to request._send *)
send_with_headers(sid, message) ==
    IF shim_injects(sid, message)
    THEN << [k \in DOMAIN message \cup {"headers"} |->
               IF k = "headers"
               THEN Get(message, "headers", <<>>) \o
                        << <<encode(X_MCP_SESSION_ID), encode(sid)>>,
                           <<encode(MCP_SESSION_ID), encode(sid)>> >>
               ELSE message[k]] >>
    ELSE << message >>

(* str.lower() on the header names dispatch assigns *)
lower(key) ==
    CASE key = "X-MCP-Session-Id" -> "x-mcp-session-id"
      [] key = "MCP-Session-Id" -> "mcp-session-id"
      [] OTHER -> key

Indexes(raw, key) == {i \in 1 .. Len(raw) : raw[i][1] = encode(lower(key))}

RECURSIVE Without(_, _)
Without(raw, drop) ==
    IF raw = <<>> THEN <<>>
    ELSE LET n == Len(raw)
             rest == Without(SubSeq(raw, 1, n - 1), drop)
         IN  IF n \in drop THEN rest ELSE Append(rest, raw[n])

Min(S) == CHOOSE x \in S : \A y \in S : x <= y

(* response.headers.append(key, value) in place of the assignment *)
set_header_append(raw, key, value) ==
    Append(raw, <<encode(lower(key)), encode(value)>>)

(* lines 66-67, response.headers[key] = value: the first entry named key   *)
(* is replaced in place and any further one removed; without such an entry *)
(* the header is appended                                                  *)
set_header(raw, key, value) ==
    LET found == Indexes(raw, key)
    IN  IF found = {} THEN Append(raw, <<encode(lower(key)), encode(value)>>)
        ELSE Without([raw EXCEPT ![Min(found)] = <<encode(lower(key)), encode(value)>>],
                     found \ {Min(found)})

(* line 65 *)
dispatch_injects(sid) == truthy(sid)

(* a dispatch that sets the primary header name only *)
dispatch_primary_only(sid, resp) ==
    IF dispatch_injects(sid)
    THEN [resp EXCEPT !.headers =
             set_header(resp.headers, X_MCP_SESSION_ID, sid)]
    ELSE resp

(* lines 62-68: the response dispatch returns for the one call_next gave *)
dispatch(sid, resp) ==
    IF dispatch_injects(sid)
    THEN [resp EXCEPT !.headers =
             set_header(set_header(resp.headers, X_MCP_SESSION_ID, sid),
                        MCP_SESSION_ID, sid)]
    ELSE resp

(* line 57 *)
Response(status_code) == [status |-> status_code, headers |-> <<>>]

(* no request has arrived *)
NoRequests ==
    /\ pc = [r \in Requests |-> "idle"]
    /\ captured = [r \in Requests |-> None]
    /\ produced = [r \in Requests |-> <<>>]
    /\ forwarded = [r \in Requests |-> <<>>]
    /\ channel = [r \in Requests |-> <<>>]
    /\ delivered = [r \in Requests |-> <<>>]
    /\ injections = [r \in Requests |-> 0]
    /\ returned = [r \in Requests |-> NoneObj]

(* lines 26-29: the app is created around a constructed server, whose      *)
(* session identifier is a generated str or None                          *)
InitApp ==
    /\ session_id \in {None} \cup SessionIds
    /\ inner_headers \in InnerHeaders
    /\ NoRequests

(* a process that serves no app *)
NoApp ==
    /\ session_id = None
    /\ inner_headers = <<>>
    /\ NoRequests

(* lines 31-33, 46-50: GET /sse reaches handle_sse, which reads the session *)
(* identifier and opens the SSE connection with the shim as its send        *)
handle_sse(r) ==
    /\ pc[r] = "idle"
    /\ pc' = [pc EXCEPT ![r] = "sse"]
    /\ captured' = [captured EXCEPT ![r] = handle_sse_session_id(session_id, r)]
    /\ UNCHANGED <<session_id, inner_headers, produced, forwarded, channel, delivered, injections,
                   returned>>
    /\ UNCHANGED <<authVars, scriptVars, testVars>>

(* the next message of the SSE transport: the start frame, then event      *)
(* chunks, then the closing frame                                          *)
TransportMessages(r) ==
    IF produced[r] = <<>> THEN {Start(200, inner_headers)}
    ELSE {Body(Chunk(Len(produced[r])), TRUE) : x \in {1} \cap
              (IF Len(produced[r]) <= MaxBody THEN {1} ELSE {})}
         \cup {Body(<<>>, FALSE)}

Last(seq) == seq[Len(seq)]

(* the inner response is not complete yet *)
StreamOpen(r) ==
    IF produced[r] = <<>> THEN TRUE
    ELSE IF IsStart(Last(produced[r])) THEN TRUE
    ELSE Last(produced[r]).more_body

(* lines 35-44: the transport passes a message to send_with_headers, which *)
(* hands it to request._send; the middleware's stream takes one message at *)
(* a time                                                                  *)
sse_send(r) ==
    /\ pc[r] = "sse"
    /\ StreamOpen(r)
    /\ channel[r] = <<>>
    /\ \E message \in TransportMessages(r) :
        LET out == send_with_headers(captured[r], message)
        IN  /\ produced' = [produced EXCEPT ![r] = Append(@, message)]
            /\ forwarded' = [forwarded EXCEPT ![r] = @ \o out]
            /\ channel' = [channel EXCEPT ![r] = out]
            /\ injections' = [injections EXCEPT ![r] =
                                 IF shim_injects(captured[r], message) THEN @ + 1 ELSE @]
    /\ UNCHANGED <<session_id, inner_headers, pc, captured, delivered, returned>>
    /\ UNCHANGED <<authVars, scriptVars, testVars>>

(* line 74: POST /messages/ reaches sse.handle_post_message *)
handle_post_message(r) ==
    /\ pc[r] = "idle"
    /\ pc' = [pc EXCEPT ![r] = "post"]
    /\ UNCHANGED <<session_id, inner_headers, captured, produced, forwarded, channel, delivered,
                   injections, returned>>
    /\ UNCHANGED <<authVars, scriptVars, testVars>>

PostMessages(r) ==
    IF produced[r] = <<>> THEN {Start(st, inner_headers) : st \in {202, 400}}
    ELSE {Body(<<"text", produced[r][1].status>>, FALSE)}

(* the response of handle_post_message goes to the request's send directly *)
post_send(r) ==
    /\ pc[r] = "post"
    /\ StreamOpen(r)
    /\ channel[r] = <<>>
    /\ \E message \in PostMessages(r) :
        /\ produced' = [produced EXCEPT ![r] = Append(@, message)]
        /\ forwarded' = [forwarded EXCEPT ![r] = Append(@, message)]
        /\ channel' = [channel EXCEPT ![r] = <<message>>]
    /\ UNCHANGED <<session_id, inner_headers, pc, captured, delivered, injections, returned>>
    /\ UNCHANGED <<authVars, scriptVars, testVars>>

(* lines 62-68: call_next returns once the inner handler has sent its      *)
(* start frame; dispatch reads the session identifier, sets the headers    *)
(* and returns the response, whose start frame goes to the client          *)
SessionHeaderMiddleware_dispatch(r) ==
    /\ channel[r] # <<>>
    /\ IsStart(channel[r][1])
    /\ delivered[r] = <<>>
    /\ LET resp ==     [status |-> channel[r][1].status,
                        headers |-> channel[r][1].headers]
           out == dispatch(session_id, resp)
       IN  /\ delivered' = [delivered EXCEPT ![r] = <<Start(out.status, out.headers)>>]
           /\ injections' = [injections EXCEPT ![r] =
                                IF dispatch_injects(session_id) THEN @ + 1 ELSE @]
    /\ channel' = [channel EXCEPT ![r] = <<>>]
    /\ UNCHANGED <<session_id, inner_headers, pc, captured, produced, forwarded, returned>>
    /\ UNCHANGED <<authVars, scriptVars, testVars>>

(* line 63, the body of the response call_next returned: every non-empty   *)
(* chunk of the inner handler is streamed on, and the message that ends    *)
(* the inner response ends the outer one                                   *)
relay(message) ==
    (IF message.body # <<>> THEN <<Body(message.body, TRUE)>> ELSE <<>>) \o
    (IF message.more_body THEN <<>> ELSE <<Body(<<>>, FALSE)>>)

stream_body(r) ==
    /\ channel[r] # <<>>
    /\ ~IsStart(channel[r][1])
    /\ delivered[r] # <<>>
    /\ delivered' = [delivered EXCEPT ![r] = @ \o relay(channel[r][1])]
    /\ channel' = [channel EXCEPT ![r] = <<>>]
    /\ UNCHANGED <<session_id, inner_headers, pc, captured, produced, forwarded, injections, returned>>
    /\ UNCHANGED <<authVars, scriptVars, testVars>>

Completed(r) ==
    IF delivered[r] = <<>> THEN FALSE
    ELSE IF IsStart(Last(delivered[r])) THEN FALSE
    ELSE ~Last(delivered[r]).more_body

(* line 57: the stream is over and handle_sse returns Response(200); the   *)
(* response of the request is complete by then, so it reaches no client    *)
handle_sse_return(r) ==
    /\ pc[r] = "sse"
    /\ Completed(r)
    /\ pc' = [pc EXCEPT ![r] = "returned"]
    /\ returned' = [returned EXCEPT ![r] = Response(200)]
    /\ UNCHANGED <<session_id, inner_headers, captured, produced, forwarded, channel, delivered,
                   injections>>
    /\ UNCHANGED <<authVars, scriptVars, testVars>>

Next ==
    \E r \in Requests :
        \/ handle_sse(r)
        \/ sse_send(r)
        \/ handle_post_message(r)
        \/ post_send(r)
        \/ SessionHeaderMiddleware_dispatch(r)
        \/ stream_body(r)
        \/ handle_sse_return(r)

-----------------------------------------------------------------------------
(* scripts/get_p01_incidents.py: one query against the incident table *)

MaxIncidents == 2

Incidents ==
    [number : {"INC001", "INC002"}, short_description : {"d", "e"},
     opened_at : {"2024-01-01", "2024-01-02"}]

RECURSIVE SeqsUpTo(_, _)
SeqsUpTo(S, n) ==
    IF n = 0 THEN {<<>>}
    ELSE SeqsUpTo(S, n - 1) \cup
         {Append(q, x) : q \in {t \in SeqsUpTo(S, n - 1) : Len(t) = n - 1}, x \in S}

(* what the table API may answer: 200 with a JSON object (with or without  *)
(* a result array), or another status with some text                      *)
Responses ==
    {[status_code |-> 200, json |-> [result |-> l]] : l \in SeqsUpTo(Incidents, MaxIncidents)}
    \cup {[status_code |-> 200, json |-> [other |-> "x"]]}
    \cup {[status_code |-> st, text |-> t] :
             st \in {201, 401, 500}, t \in {"", "User Not Authenticated"}}

InitScript ==
    /\ s_pc = "start"
    /\ requests_sent = 0
    /\ response = NoneObj
    /\ output = <<>>

(* lines 23-27: requests.get(url, auth=..., headers=...) is issued *)
requests_get ==
    /\ s_pc = "start"
    /\ s_pc' = "waiting"
    /\ requests_sent' = requests_sent + 1
    /\ UNCHANGED <<response, output>>
    /\ UNCHANGED <<authVars, appVars, testVars>>

(* the upstream answers and requests.get returns *)
upstream_response ==
    /\ s_pc = "waiting"
    /\ s_pc' = "received"
    /\ response' \in Responses
    /\ UNCHANGED <<requests_sent, output>>
    /\ UNCHANGED <<authVars, appVars, testVars>>

(* line 33 *)
incident_line(inc) ==
    [fmt |-> "Number: {}, Short Description: {}, Opened At: {}",
     args |-> <<inc["number"], inc["short_description"], inc["opened_at"]>>]

(* line 31 *)
found_line(incidents) ==
    [fmt |-> "Found {} P01 incidents in the last month:", n |-> Len(incidents)]

(* a failure branch that reports the status code without the body *)
failed_line_status_only(status_code, text) ==
    [fmt |-> "Failed to fetch incidents: {}", status_code |-> status_code]

(* line 35 *)
failed_line(status_code, text) ==
    [fmt |-> "Failed to fetch incidents: {} - {}", status_code |-> status_code,
     text |-> text]

(* lines 29-35: what the script prints for a response *)
report(resp) ==
    IF resp.status_code = 200
    THEN LET incidents == Get(resp.json, "result", <<>>)
         IN  <<found_line(incidents)>> \o
             [i \in 1 .. Len(incidents) |-> incident_line(incidents[i])]
    ELSE <<failed_line(resp.status_code, resp.text)>>

print_report ==
    /\ s_pc = "received"
    /\ s_pc' = "done"
    /\ output' = report(response)
    /\ UNCHANGED <<requests_sent, response>>
    /\ UNCHANGED <<authVars, appVars, testVars>>

NextScript == requests_get \/ upstream_response \/ print_report

-----------------------------------------------------------------------------
(* tests/test_session_headers.py: the call site of _call_tool_impl *)

MaxTools == 3
MaxResult == 1
ContentPreview == 200

(* the content items a tool call may return: text and annotations may each *)
(* be missing, None or set; a str is wrapped as [str |-> its characters]   *)
Str(chars) == [str |-> chars]
Texts == {NoneObj, Str(<<"p", "k", "g">>), Str(<<>>)}
Annotations == {NoneObj, Str(<<"s", "i", "d">>)}
Items ==
    {[type |-> "text"]}
    \cup {[type |-> "text", text |-> t] : t \in Texts}
    \cup {[type |-> "text", annotations |-> a] : a \in Annotations}
    \cup {[type |-> "text", text |-> t, annotations |-> a] :
             t \in Texts, a \in Annotations}

(* the exceptions a tool call may raise; all derive from Exception *)
ExceptionClasses == {"ValueError", "RuntimeError", "ConnectionError", "IndexError",
                     "AttributeError", "TypeError"}
ToolErrors == {[cls |-> c] : c \in {"ValueError", "RuntimeError", "ConnectionError"}}

Outcomes ==
    {[raised |-> e] : e \in ToolErrors}
    \cup {[result |-> l] : l \in SeqsUpTo(Items, MaxResult)}

InitTest ==
    /\ t_pc = "start"
    /\ t_outcome = NoneObj
    /\ t_output = <<>>
    /\ t_crashed = NoneObj

(* lines 29-35: the server is built and its tools are listed, outside any  *)
(* try: an error here leaves the function                                  *)
list_tools ==
    /\ t_pc = "start"
    /\ \/ \E n \in 0 .. MaxTools :
            /\ t_pc' = "listed"
            /\ t_output' = <<[fmt |-> "Generated session ID: {}"],
                             [fmt |-> "Available tools: {}", n |-> n]>>
            /\ t_crashed' = NoneObj
       \/ /\ t_pc' = "done"
          /\ t_output' = <<[fmt |-> "Generated session ID: {}"]>>
          /\ t_crashed' = [cls |-> "RuntimeError"]
    /\ UNCHANGED t_outcome
    /\ UNCHANGED <<authVars, appVars, scriptVars>>

(* line 39: _call_tool_impl("list_tool_packages", ...) returns or raises *)
call_tool ==
    /\ t_pc = "listed"
    /\ t_pc' = "called"
    /\ t_outcome' \in Outcomes
    /\ UNCHANGED <<t_output, t_crashed>>
    /\ UNCHANGED <<authVars, appVars, scriptVars>>

(* text[:n] *)
Slice(text, n) == SubSeq(text, 1, IF Len(text) < n THEN Len(text) ELSE n)

(* lines 40-47: what reading the result prints, and the error it ends on *)
read_result(result) ==
    LET type_line == <<[fmt |-> "Tool call result type: {}", cls |-> "list"]>>
    IN  IF result = <<>>
        THEN [lines |-> type_line, raised |-> [cls |-> "IndexError"]]
        ELSE IF ~Has(result[1], "text")
        THEN [lines |-> type_line, raised |-> [cls |-> "AttributeError"]]
        ELSE IF result[1]["text"] = NoneObj
        THEN [lines |-> type_line, raised |-> [cls |-> "TypeError"]]
        ELSE [lines |-> type_line \o
                  <<[fmt |-> "Result content: {}...",
                     text |-> Slice(result[1]["text"].str, ContentPreview)]>> \o
                  (IF Has(result[1], "annotations") /\ result[1]["annotations"] # NoneObj
                   THEN <<[fmt |-> "Session annotations: {}",
                           annotations |-> result[1]["annotations"]]>>
                   ELSE <<[fmt |-> "No annotations found in response"]>>),
              raised |-> NoneObj]

(* an except clause that names one exception class *)
except_ValueError(e) == e.cls = "ValueError"

(* line 49: except Exception *)
except_Exception(e) == e.cls \in ExceptionClasses

(* lines 38-50: the try block after the call, and its handler *)
try_block(outcome) ==
    LET r == IF Has(outcome, "raised")
             THEN [lines |-> <<>>, raised |-> outcome.raised]
             ELSE read_result(outcome.result)
    IN  IF r.raised = NoneObj THEN [lines |-> r.lines, crashed |-> NoneObj]
        ELSE IF except_Exception(r.raised)
        THEN [lines |-> r.lines \o <<[fmt |-> "Error calling tool: {}", e |-> r.raised]>>,
              crashed |-> NoneObj]
        ELSE [lines |-> r.lines, crashed |-> r.raised]

finish_try ==
    /\ t_pc = "called"
    /\ t_pc' = "done"
    /\ t_output' = t_output \o try_block(t_outcome).lines
    /\ t_crashed' = try_block(t_outcome).crashed
    /\ UNCHANGED t_outcome
    /\ UNCHANGED <<authVars, appVars, scriptVars>>

NextTest == list_tools \/ call_tool \/ finish_try

-----------------------------------------------------------------------------
Init == InitAuth /\ InitApp /\ InitScript /\ InitTest

(* the server behind its two routes *)
Spec == Init /\ [][Next]_vars

InitProcess == InitAuth /\ NoApp /\ InitScript /\ InitTest

(* one process calling create_servicenow_mcp or main *)
SpecAuth == InitProcess /\ [][NextAuth]_vars

(* one run of scripts/get_p01_incidents.py *)
SpecScript == InitProcess /\ [][NextScript]_vars

(* one run of tests/test_session_headers.py *)
SpecTest == InitProcess /\ [][NextTest]_vars

-----------------------------------------------------------------------------
(* C1 and C2: the auth resolver *)

Required(kind) ==
    CASE kind = "basic" -> {"username", "password"}
      [] kind = "oauth" -> {"client_id", "client_secret", "username", "password"}
      [] kind = "api_key" -> {"api_key"}

VariantClass(kind) ==
    CASE kind = "basic" -> "BasicAuthConfig"
      [] kind = "oauth" -> "OAuthConfig"
      [] kind = "api_key" -> "ApiKeyConfig"

Populated(ac) == {k \in AuthKinds : ac[k] # NoneObj}

RequiredEnv(kind) ==
    CASE kind = "basic" -> {"SERVICENOW_USERNAME", "SERVICENOW_PASSWORD"}
      [] kind = "oauth" -> {"SERVICENOW_CLIENT_ID", "SERVICENOW_CLIENT_SECRET",
                            "SERVICENOW_USERNAME", "SERVICENOW_PASSWORD"}
      [] kind = "api_key" -> {"SERVICENOW_API_KEY"}

(* the call names one of the three kinds and supplies every parameter the  *)
(* kind needs: as keywords, or for main as environment variables          *)
CompleteCall ==
    /\ call # NoneObj
    /\ call.auth_type \in AuthKinds
    /\ IF call.entry = "create_servicenow_mcp"
       THEN Required(call.auth_type) \subseteq DOMAIN call.auth_params
       ELSE RequiredEnv(call.auth_type) \subseteq DOMAIN call.env

\* C1: a call with one of the three kinds and complete parameters for it
\* builds an AuthConfig whose tag is the requested kind and whose only
\* populated variant is the one of that kind.
C1_ActiveVariantMatchesKind ==
    CompleteCall =>
        /\ error = NoneObj
        /\ auth_config # NoneObj
        /\ auth_config.type = call.auth_type
        /\ Populated(auth_config) = {call.auth_type}
        /\ auth_config[call.auth_type].cls = VariantClass(call.auth_type)
        /\ config.auth = auth_config
        /\ server.config = config

C1_Witness ==
    /\ CompleteCall
    /\ call.entry = "create_servicenow_mcp"
    /\ call.auth_type = "oauth"
    /\ auth_config # NoneObj
    /\ auth_config.oauth.client_id = "cid"

\* C2: a call with an unrecognized kind raises an error naming the kind; no
\* AuthConfig, ServerConfig or server object is built and the server is not
\* started.
C2_UnknownKindFails ==
    (call # NoneObj /\ call.auth_type \notin AuthKinds) =>
        /\ error # NoneObj
        /\ error.cls = "ValueError"
        /\ error.args[2] = call.auth_type
        /\ auth_config = NoneObj
        /\ config = NoneObj
        /\ server = NoneObj
        /\ started = NoneObj

C2_Witness ==
    /\ call # NoneObj
    /\ call.entry = "main"
    /\ call.auth_type = "ldap"
    /\ error # NoneObj
    /\ error.args = <<"Unsupported SERVICENOW_AUTH_TYPE: ", "ldap">>

-----------------------------------------------------------------------------
(* C3 - C7, C10: session-header propagation *)

Count(raw, name) == Cardinality({i \in 1 .. Len(raw) : raw[i][1] = encode(name)})

(* both header names occur, and every entry under either name holds sid *)
Carries(raw, sid) ==
    /\ Count(raw, X_MCP_SESSION_ID) >= 1
    /\ Count(raw, MCP_SESSION_ID) >= 1
    /\ \A i \in 1 .. Len(raw) :
           raw[i][1] \in {encode(X_MCP_SESSION_ID), encode(MCP_SESSION_ID)} =>
               raw[i][2] = encode(sid)

IsSse(r) == pc[r] \in {"sse", "returned"}

StartFrames(frames) == {frames[i] : i \in {j \in 1 .. Len(frames) : IsStart(frames[j])}}

IsPrefix(a, b) == Len(a) <= Len(b) /\ SubSeq(b, 1, Len(a)) = a

(* the body of a response: the body fields of its body frames, concatenated *)
RECURSIVE BodyOf(_)
BodyOf(frames) ==
    IF frames = <<>> THEN <<>>
    ELSE IF IsStart(Head(frames)) THEN BodyOf(Tail(frames))
    ELSE Head(frames).body \o BodyOf(Tail(frames))

(* a state in which both routes have delivered the start of a response *)
BothRoutesStarted ==
    \E r1, r2 \in Requests :
        /\ IsSse(r1) /\ delivered[r1] # <<>>
        /\ pc[r2] = "post" /\ delivered[r2] # <<>>

\* C3: with a session identifier present, every start frame the shim hands
\* on and every response delivered to a client, on /sse and on /messages/,
\* carries x-mcp-session-id and mcp-session-id, both holding the identifier.
C3_SessionHeadersOnEveryResponse ==
    session_id # None =>
        \A r \in Requests :
            /\ \A f \in StartFrames(delivered[r]) : Carries(f.headers, session_id)
            /\ IsSse(r) => \A f \in StartFrames(forwarded[r]) :
                               Carries(f.headers, session_id)

C3_Witness == session_id = "sid-A" /\ BothRoutesStarted

\* C4: with session_id None, the shim and the middleware add neither header:
\* every message is handed on as produced and the delivered headers are the
\* inner handler's.
C4_NoSessionNoHeaders ==
    session_id = None =>
        \A r \in Requests :
            /\ forwarded[r] = produced[r]
            /\ \A f \in StartFrames(delivered[r]) :
                   /\ f.headers = produced[r][1].headers
                   /\ Count(f.headers, X_MCP_SESSION_ID) = 0
                   /\ Count(f.headers, MCP_SESSION_ID) = 0

C4_Witness == session_id = None /\ BothRoutesStarted

\* C5 as stated: the session headers are injected one time into every
\* response, the /sse one included, and the delivered response holds exactly
\* one entry under each name.
C5_InjectedOncePerResponse ==
    session_id # None =>
        \A r \in Requests : \A f \in StartFrames(delivered[r]) :
            /\ injections[r] = 1
            /\ Count(f.headers, X_MCP_SESSION_ID) = 1
            /\ Count(f.headers, MCP_SESSION_ID) = 1

\* C5 amended: each layer injects once per start frame, so a /sse response
\* is injected twice (the shim appends, the middleware assigns over the
\* appended entries) and a /messages/ response once; either way the
\* delivered response holds exactly one entry under each name.
C5_OneEntryEachDelivered ==
    session_id # None =>
        \A r \in Requests :
            /\ \A f \in StartFrames(forwarded[r]) :
                   IsSse(r) => /\ Count(f.headers, X_MCP_SESSION_ID) = 1
                               /\ Count(f.headers, MCP_SESSION_ID) = 1
            /\ \A f \in StartFrames(delivered[r]) :
                   /\ injections[r] = IF IsSse(r) THEN 2 ELSE 1
                   /\ Count(f.headers, X_MCP_SESSION_ID) = 1
                   /\ Count(f.headers, MCP_SESSION_ID) = 1

C5_Witness ==
    /\ session_id # None
    /\ \E r \in Requests : IsSse(r) /\ delivered[r] # <<>> /\ injections[r] = 2
    /\ \E r \in Requests : pc[r] = "post" /\ delivered[r] # <<>> /\ injections[r] = 1

\* C6: injection leaves the status code, the body and every header already
\* present, in order, as they were; the shim hands on every frame that is
\* not a start frame unmodified.
C6_SideEffectOnly ==
    \A r \in Requests :
        /\ Len(forwarded[r]) <= Len(produced[r])
        /\ \A i \in 1 .. Len(forwarded[r]) :
               IF IsStart(produced[r][i])
               THEN /\ IsStart(forwarded[r][i])
                    /\ forwarded[r][i].status = produced[r][i].status
                    /\ IsPrefix(produced[r][i].headers, forwarded[r][i].headers)
               ELSE forwarded[r][i] = produced[r][i]
        /\ delivered[r] # <<>> =>
               /\ delivered[r][1].status = produced[r][1].status
               /\ IsPrefix(produced[r][1].headers, delivered[r][1].headers)
               /\ IsPrefix(forwarded[r][1].headers, delivered[r][1].headers)
               /\ IsPrefix(BodyOf(delivered[r]), BodyOf(produced[r]))
               /\ Completed(r) => BodyOf(delivered[r]) = BodyOf(produced[r])

C6_Witness ==
    /\ session_id # None
    /\ \E r \in Requests :
           /\ IsSse(r) /\ Completed(r)
           /\ Len(produced[r][1].headers) >= 2
           /\ BodyOf(delivered[r]) # <<>>
    /\ \E r \in Requests : pc[r] = "post" /\ Completed(r)

\* C7: every session-header value injected, by the shim or by the middleware,
\* on any request and under any interleaving, is the server's one
\* identifier: the value handle_sse captured is the one the middleware reads,
\* and any two responses carry the same value.
InjectedValues(r) ==
    UNION {{f.headers[i][2] : i \in {j \in 1 .. Len(f.headers) :
                f.headers[j][1] \in {encode(X_MCP_SESSION_ID), encode(MCP_SESSION_ID)}}} :
           f \in StartFrames(forwarded[r]) \cup StartFrames(delivered[r])}

C7_SessionIdFixed ==
    /\ \A r \in Requests :
           /\ IsSse(r) => captured[r] = session_id
           /\ InjectedValues(r) \subseteq {encode(session_id)}
    /\ \A r1, r2 \in Requests :
           InjectedValues(r1) # {} /\ InjectedValues(r2) # {} =>
               InjectedValues(r1) = InjectedValues(r2)

C7_Witness ==
    /\ session_id = "sid-B"
    /\ \E r1, r2 \in Requests :
           /\ r1 # r2
           /\ IsSse(r1) /\ IsSse(r2)
           /\ delivered[r1] # <<>> /\ delivered[r2] = <<>> /\ forwarded[r2] # <<>>
           /\ InjectedValues(r1) = {encode("sid-B")}
           /\ InjectedValues(r2) = {encode("sid-B")}

\* C10: the shim hands every message of the SSE transport to the
\* connection's send exactly once and in order, whatever its type and
\* whether or not a session identifier is set; a start frame goes out with
\* the two headers already appended.
Appended(sid) ==
    IF sid # None
    THEN << <<encode(X_MCP_SESSION_ID), encode(sid)>>,
            <<encode(MCP_SESSION_ID), encode(sid)>> >>
    ELSE <<>>

C10_TransparentRelay ==
    \A r \in Requests :
        IsSse(r) =>
            /\ Len(forwarded[r]) = Len(produced[r])
            /\ \A i \in 1 .. Len(produced[r]) :
                   forwarded[r][i] =
                       IF IsStart(produced[r][i])
                       THEN [produced[r][i] EXCEPT !.headers = @ \o Appended(session_id)]
                       ELSE produced[r][i]

C10_Witness ==
    \E r \in Requests :
        /\ IsSse(r)
        /\ session_id # None
        /\ Len(forwarded[r]) = 3
        /\ forwarded[r][2].more_body
        /\ ~forwarded[r][3].more_body

-----------------------------------------------------------------------------
(* C8: the incident query *)

\* C8: the script issues exactly one GET; a non-200 answer yields one
\* failure message holding the status code and the body and no incident
\* line; a 200 answer yields one line per entry of the result array, in
\* order, with number, short_description and opened_at as received.
C8_ReportedNotRetried ==
    /\ requests_sent <= 1
    /\ s_pc # "start" => requests_sent = 1
    /\ s_pc # "done" => output = <<>>
    /\ s_pc = "done" =>
           IF response.status_code # 200
           THEN /\ Len(output) = 1
                /\ DOMAIN output[1] = {"fmt", "status_code", "text"}
                /\ output[1].status_code = response.status_code
                /\ output[1].text = response.text
           ELSE LET result == IF "result" \in DOMAIN response.json
                              THEN response.json.result ELSE <<>>
                IN  /\ Len(output) = 1 + Len(result)
                    /\ output[1].n = Len(result)
                    /\ \A i \in 1 .. Len(result) :
                           output[i + 1].args = <<result[i].number,
                                                  result[i].short_description,
                                                  result[i].opened_at>>

C8_Witness ==
    /\ s_pc = "done"
    /\ response.status_code = 200
    /\ Len(response.json.result) = 2
    /\ response.json.result[1].number = "INC002"
    /\ response.json.result[2].number = "INC001"
    /\ output[2].args[1] = "INC002"

-----------------------------------------------------------------------------
(* C9: the tool call site *)

(* the errors of the try block: the call raises, or reading the result does *)
CallFails ==
    /\ t_outcome # NoneObj
    /\ \/ "raised" \in DOMAIN t_outcome
       \/ /\ "result" \in DOMAIN t_outcome
          /\ \/ t_outcome.result = <<>>
             \/ "text" \notin DOMAIN t_outcome.result[1]
             \/ t_outcome.result[1].text = NoneObj

\* C9: whatever error the tool call raises, and whatever error reading its
\* result raises, the caller reports it on its last line and finishes
\* normally: no exception leaves test_session_headers.
C9_ToolFailureCaught ==
    /\ t_outcome # NoneObj => t_crashed = NoneObj
    /\ (t_pc = "done" /\ CallFails) =>
           /\ t_crashed = NoneObj
           /\ Last(t_output).fmt = "Error calling tool: {}"
           /\ "raised" \in DOMAIN t_outcome => Last(t_output).e = t_outcome.raised

C9_Witness ==
    /\ t_pc = "done"
    /\ CallFails
    /\ "raised" \in DOMAIN t_outcome
    /\ t_outcome.raised.cls = "ConnectionError"
    /\ Len(t_output) = 3

====
